---- MODULE Spec2Model ----
(***************************************************************************)
(* Request lifecycle of the Aurelio SDK clients (aurelio_sdk/client.py and *)
(* aurelio_sdk/client_async.py): the attempt loop of chunk, extract_file,  *)
(* extract_url, get_document and embedding, and the poll loop of wait_for. *)
(* One behaviour follows one call on one client from its invocation to its *)
(* return or raise.  Every HTTP attempt is one step: the environment picks *)
(* the attempt's outcome and the step applies the code's classification    *)
(* and its except clauses.                                                 *)
(***************************************************************************)
EXTENDS Integers, Sequences, FiniteSets, TLC

\* ---------------------------------------------------------------- bounds
MaxRetries == 2
MaxWait == 1
MaxInterval == 1
MaxFetches == 2

\* ------------------------------------------------------ program constants
DEFAULT_RETRIES == 3
DEFAULT_TIMEOUT == 30
CHUNK_TIMEOUT == 60

\* None of an Optional[int]; like None it is falsy in "if status_code:".
None == 0

\* aurelio_sdk.const.WAIT_TIME_BEFORE_POLLING, the short server-side wait of
\* a submission that is followed by polling: a number of seconds that no
\* wait argument of the model equals.
WAIT_TIME_BEFORE_POLLING == MaxWait + 2

\* The total timeout of an aiohttp.ClientSession created with timeout=None
\* (aiohttp.client.DEFAULT_TIMEOUT).
AIOHTTP_DEFAULT_TIMEOUT == 5 * 60

Clients == {"sync", "async"}
RetryOps == {"chunk", "extract_file", "extract_url", "get_document", "embedding"}
ExtractOps == {"extract_file", "extract_url"}
Ops == RetryOps \cup {"wait_for"}
\* HTTP statuses the server may answer with; the code only distinguishes
\* 200, 429, >= 500 and the rest.
Statuses == {200, 204, 404, 429, 500, 503}
Bodies == {"Internal Server Error", "detail"}
DocStatuses == {"pending", "completed", "failed"}
\* FINAL_STATES, were "failed" not one of them.
FINAL_STATES_OnlyCompleted == {"completed"}
\* FINAL_STATES = ["completed", "failed"]
FINAL_STATES == {"completed", "failed"}
RetriesArgs == 0..MaxRetries
WaitArgs == -1..MaxWait
IntervalArgs == -1..MaxInterval
TimeoutArgs == {DEFAULT_TIMEOUT, CHUNK_TIMEOUT}

\* Seconds a request may take, and seconds a sleep may overrun its length:
\* none or one.
ReqTimes == {0, 1}
Oversleep == {0, 1}

\* Latest instant the model distinguishes: past every finite deadline (a
\* submission ends by 1, a deadline is at most MaxWait later).
Horizon == 1 + MaxWait + 1
\* float("inf")
Inf == Horizon + 1

Min(a, b) == IF a < b THEN a ELSE b
Max(a, b) == IF a > b THEN a ELSE b

VARIABLES
    client,            \* "sync" (AurelioClient) or "async" (AsyncAurelioClient)
    op,                \* the operation called
    retries,           \* its retries argument
    wait,              \* its wait argument
    polling_interval,  \* its polling_interval argument
    timeout,           \* timeout of the operation's own requests (None = 0)
    processing_options,\* chunk: the chunker_type of the options, or "None"
    source,            \* extract_file: "path" (file_path), "file" (an
                       \* io.BytesIO), "handle" (an open file), or "none"
    pc,                \* "idle", "attempt", "sleep", "done"
    phase,             \* "submit": the operation's own loop; "poll": wait_for
    attempt,           \* loop variable of the running attempt loop
    hist,              \* what each attempt received, in the latest attempt
                       \* loop that has issued a request
    response,          \* status and body of the last HTTP response
    fetches,           \* get_document calls made by wait_for
    now,               \* time.time(), relative to the call
    start_time,        \* wait_for's start_time
    timeout_reached,   \* wait_for's timeout_reached
    extract_response,  \* response of the submission
    document_response, \* wait_for's document_response
    result,            \* the response returned to the caller
    error,             \* the exception raised to the caller
    req_timeout,       \* timeout the last request was issued with (None = 0)
    sent_wait,         \* "wait" field of each submission request, in order
    open_sessions,     \* aiohttp.ClientSession objects open
    files_open,        \* upload file handles open
    files_opened,      \* upload file handles opened so far
    init_args,         \* arguments and environment the client was built from
    init_error,        \* the exception raised by the constructor
    self,              \* the client object: api_key, base_url, headers
    req_headers,       \* headers the last request was issued with
    chunking,          \* one ChunkingOptions value on its way through the
                       \* chunk request and back
    file_pos,          \* position of the file object given to extract_file
    uploaded,          \* file part of each upload request, in order
    other,             \* another operation on the same client, run by a
                       \* second task of the same event loop
    extraction         \* extract_file / extract_url: the model and quality
                       \* arguments, the name of the file or the URL, and
                       \* the "model" field of the last submission request

args == <<client, op, retries, wait, polling_interval, timeout,
          processing_options, source>>
vars == <<client, op, retries, wait, polling_interval, timeout,
          processing_options, source, pc, phase,
          attempt, hist, response, fetches, now,
          start_time, timeout_reached, extract_response, document_response,
          result, error, req_timeout, sent_wait, open_sessions, files_open,
          files_opened, init_args, init_error, self, req_headers, chunking,
          file_pos, uploaded,
                   other, extraction>>

\* the client object and what it was built from
object == <<init_args, init_error, self>>

\* -------------------------------------------------------------- exceptions
PREFIX == "[AurelioSDK] API request failed"

NoError == [type |-> "none", status_code |-> None, message |-> <<>>]
NoResponse == [src |-> "none", n |-> 0, status |-> "none"]

\* ApiError.__init__
ApiError(message, status_code, base_url) ==
    LET full == IF Len(message) > 0 /\ message[1] = PREFIX
                THEN message
                ELSE <<PREFIX>> \o message
        withStatus == IF status_code # None
                      THEN full \o <<"Status code:", ToString(status_code)>>
                      ELSE full
        withUrl == IF base_url THEN withStatus \o <<"Base API URL">> ELSE withStatus
    IN [type |-> "ApiError", status_code |-> status_code, message |-> withUrl]

\* ApiTimeoutError.__init__
ApiTimeoutError(base_url, t) ==
    LET m0 == <<"[AurelioSDK] Operation timed out">>
        m1 == IF t # None THEN m0 \o <<"Timeout value:", ToString(t)>> ELSE m0
        m2 == IF base_url THEN m1 \o <<"Base URL">> ELSE m1
    IN [type |-> "ApiTimeoutError", status_code |-> None, message |-> m2]

\* ApiRateLimitError.__init__
ApiRateLimitError(message, status_code, base_url) ==
    LET m0 == <<"[AurelioSDK] API rate limit exceeded">>
        m1 == m0 \o message
        m2 == IF status_code # None
              THEN m1 \o <<"Status code:", ToString(status_code)>>
              ELSE m1
        m3 == IF base_url THEN m2 \o <<"Base API URL">> ELSE m2
    IN [type |-> "ApiRateLimitError", status_code |-> status_code, message |-> m3]

\* An exception of the transport or of the decoder, not one of the SDK's.
Foreign(type, text) == [type |-> type, status_code |-> None, message |-> <<text>>]

\* ------------------------------------------------- what an attempt receives
\* One entry of hist: an HTTP response (its status, and whether a
\* 200 body decodes into the response record), a timeout of the transport
\* (a connect timeout or any other), or another exception.
Http(status, wellformed) == [kind |-> "http", status |-> status, ok |-> wellformed]
Failure(kind) == [kind |-> kind, status |-> None, ok |-> FALSE]
\* aiohttp.ConnectionTimeoutError, or any other timeout
TimeoutKinds == {"conn_timeout", "timeout"}
NoHttpResponse == [status |-> None, body |-> ""]

Last(h) == h[Len(h)]
Is5xx(e) == e.kind = "http" /\ e.status >= 500
IsSuccess(e) == e.kind = "http" /\ e.status = 200 /\ e.ok
IsMalformed(e) == e.kind = "http" /\ e.status = 200 /\ ~e.ok
IsRateLimit(e) == e.kind = "http" /\ e.status = 429
IsOtherStatus(e) == e.kind = "http" /\ e.status # 200 /\ e.status # 429 /\ e.status < 500
IsTimeout(e) == e.kind = "timeout"
IsOtherException(e) == e.kind = "exc" \/ IsMalformed(e)

\* ------------------------------------------------------- the attempt loop
\* The operation whose attempt loop is running, and its arguments: wait_for
\* calls get_document(document_id=...) with the defaults.
curOp == IF phase = "poll" THEN "get_document" ELSE op

\* curRetries, were the budget of the extract call handed on to get_document.
curRetries_CallersBudget == retries

\* for attempt in range(1, retries + 1): wait_for calls
\* get_document(document_id=...), which takes retries = 3, timeout = 30
curRetries == IF phase = "poll" THEN DEFAULT_RETRIES ELSE retries

\* ... and the timeout of its requests
curTimeout == IF phase = "poll" THEN DEFAULT_TIMEOUT ELSE timeout

\* Classify, were every 2xx status taken for a success.
Classify_Any2xx(status) ==
    IF status >= 200 /\ status < 300 THEN "ok"
    ELSE IF status = 429 THEN "rate_limit"
    ELSE IF status >= 500 THEN "server_error"
    ELSE "client_error"

\* if status == 200 / elif status == 429 / elif status >= 500 / else
Classify(status) ==
    IF status = 200 THEN "ok"
    ELSE IF status = 429 THEN "rate_limit"
    ELSE IF status >= 500 THEN "server_error"
    ELSE "client_error"

\* IsLastAttempt, were the comparison one attempt early or never true
\* inside the loop.
IsLastAttempt_Early(a, r) == a >= r - 1
IsLastAttempt_Never(a, r) == a > r

\* if attempt == retries
IsLastAttempt(a, r) == a = r

\* base_url is passed to the ApiError raised on a status by the synchronous
\* client only.
StatusError(c, status, body) == ApiError(<<body>>, status, c = "sync")

\* raise ApiRateLimitError(...) of each operation
RateLimitError(c, o, status) ==
    ApiRateLimitError(
        IF c = "async" /\ o = "chunk"
        THEN <<"Rate limit exceeded of 100 requests per minute">>
        ELSE IF c = "async" /\ o = "get_document"
        THEN <<"Rate limit exceeded">>
        ELSE <<>>,
        status, TRUE)

\* except Exception as e: raise ApiError(message=str(e), base_url=...) from e
ExceptException(c, o, e) ==
    ApiError(IF c = "async" /\ o = "extract_url"
             THEN <<"Failed to get response after retries:">> \o e.message
             ELSE e.message,
             None, TRUE)

\* Except without its "except ApiRateLimitError" clause.
Except_NoRateLimitClause(c, o, e) == ExceptException(c, o, e)

\* The except clauses an exception raised in the try body meets, other than
\* a timeout: "except ApiRateLimitError as e: raise e", then
\* "except Exception".  ApiError is an Exception, so the ApiError raised on
\* a status is caught and raised again by the last clause.
Except(c, o, e) ==
    IF e.type = "ApiRateLimitError" THEN e ELSE ExceptException(c, o, e)

\* ExceptionPolicy, were the exception retried while attempts remain.
ExceptionPolicy_RetryWhileLeft(c, o, a, r) == IF a = r THEN "raise" ELSE "retry"

\* What "except Exception" does with the attempt loop: it raises, on every
\* attempt ("# break").
ExceptionPolicy(c, o, a, r) == "raise"

\* The clause a timeout of the transport meets.  The synchronous chunk has
\* no timeout clause and the asynchronous get_document catches only
\* aiohttp.ConnectionTimeoutError, and raises at once; elsewhere
\* "except requests.exceptions.Timeout" / "except asyncio.TimeoutError"
\* retries unless the attempt is the last.
TimeoutPolicy(c, o, kind, a, r) ==
    IF c = "sync" /\ o = "chunk" THEN "generic"
    ELSE IF c = "async" /\ o = "get_document"
    THEN (IF kind = "conn_timeout" THEN "raise_timeout" ELSE "generic")
    ELSE IF IsLastAttempt(a, r) THEN "raise_timeout" ELSE "retry"

\* session_timeout = wait + 1 if wait > 0 else None
SessionTimeout(w) == IF w > 0 THEN w + 1 ELSE None

\* "if wait == 0: return" and "if status in [completed, failed] or
\* polling_interval <= 0: return"; the asynchronous extract_url tests
\* polling_interval == 0.
PollingDisabled(c, o, pi) ==
    IF c = "async" /\ o = "extract_url" THEN pi = 0 ELSE pi <= 0
\* SkipsPolling without "if wait == 0: return".
SkipsPolling_NoWaitCheck(c, o, w, pi, status) ==
    status \in FINAL_STATES \/ PollingDisabled(c, o, pi)
\* SkipsPolling without the test of the submission response's status.
SkipsPolling_IgnoresStatus(c, o, w, pi, status) ==
    w = 0 \/ PollingDisabled(c, o, pi)
SkipsPolling(c, o, w, pi, status) ==
    w = 0 \/ status \in FINAL_STATES \/ PollingDisabled(c, o, pi)

\* EndTime, were a negative wait added to start_time like any other.
EndTime_NegativeIsDeadline(start, w) == start + w

\* end_time = start_time + wait if wait >= 0 else float("inf")
EndTime(start, w) == IF w >= 0 THEN start + w ELSE Inf

\* DeadlinePassed, were the deadline looked at a second late.
DeadlinePassed_Late(t, end) == t > end + 1

\* if time.time() > end_time
DeadlinePassed(t, end) == t > end

\* OnDeadline, were the timeout error of wait_for's docstring raised.
OnDeadline_Raises(doc, w) ==
    [result |-> NoResponse, error |-> ApiTimeoutError(TRUE, w)]

\* timeout_reached = True; break; return document_response
OnDeadline(doc, w) == [result |-> doc, error |-> NoError]

\* initial_wait = WAIT_TIME_BEFORE_POLLING if polling_interval > 0 else wait;
\* the asynchronous extract_url tests polling_interval < 0.
InitialWait(c, o, pi, w) ==
    IF c = "async" /\ o = "extract_url"
    THEN (IF pi < 0 THEN WAIT_TIME_BEFORE_POLLING ELSE w)
    ELSE (IF pi > 0 THEN WAIT_TIME_BEFORE_POLLING ELSE w)

\* The timeout a request is made with: requests.post(timeout=t) has none
\* when t is None; aiohttp.ClientSession(timeout=None) keeps the default of
\* aiohttp.
RequestTimeout(c, t) ==
    IF c = "async" /\ t = None THEN AIOHTTP_DEFAULT_TIMEOUT ELSE t

\* IsException, were asyncio.CancelledError a subclass of Exception.
IsException_All(type) == TRUE

\* Whether "except Exception" catches an exception of this type:
\* asyncio.CancelledError derives from BaseException.
IsException(type) == type # "CancelledError"

\* async with aiohttp.ClientSession(timeout=session_timeout) as session
OpenSession(c, n) == IF c = "async" THEN n + 1 ELSE n

\* ExitSession, were the session left open when the block is left by a
\* cancellation.
ExitSession_LeakOnCancel(c, n, how) ==
    IF c = "async" /\ how # "CancelledError" THEN n - 1 ELSE n

\* The "async with" block of the session is left, normally or by the
\* exception how: the session is closed.
ExitSession(c, n, how) == IF c = "async" THEN n - 1 ELSE n

\* with open(file_path, "rb") as file_buffer
OpenFile(n) == n + 1

\* CloseFile, were the handle closed only on a normal exit of the block.
CloseFile_LeakOnRaise(n, how) == IF how = "normal" THEN n - 1 ELSE n

\* The with block of the file is left, normally or by the exception how:
\* the handle is closed.
CloseFile(n, how) == n - 1

\* ------------------------------------------------------------------ Init
\* ------------------------------------------------------ the client object
\* An Optional[str]: None, or a string as the sequence of its characters.
NoneStr == [some |-> FALSE, val |-> <<>>]
Str(chars) == [some |-> TRUE, val |-> chars]

\* bool(s) of an Optional[str]: None and "" are false
Truthy(s) == s.some /\ s.val # <<>>

\* str.strip()
RECURSIVE LStrip(_)
LStrip(chars) ==
    IF chars # <<>> /\ chars[1] = " " THEN LStrip(Tail(chars)) ELSE chars

RECURSIVE RStrip(_)
RStrip(chars) ==
    IF chars # <<>> /\ chars[Len(chars)] = " "
    THEN RStrip(SubSeq(chars, 1, Len(chars) - 1))
    ELSE chars

Strip(chars) == RStrip(LStrip(chars))

\* os.environ.get("AURELIO_API_KEY", ""), env being the variable's value
\* or NoneStr when it is unset
Getenv(env) == IF env.some THEN env.val ELSE <<>>

DEFAULT_BASE_URL == <<"https://api.aurelio.ai">>

\* SelectKey, were the environment variable looked at first.
SelectKey_EnvFirst(api_key, env) ==
    IF Getenv(env) # <<>> THEN Getenv(env)
    ELSE IF Truthy(api_key) THEN api_key.val ELSE <<>>

\* api_key or os.environ.get("AURELIO_API_KEY", "")
SelectKey(api_key, env) ==
    IF Truthy(api_key) THEN api_key.val ELSE Getenv(env)

\* The constructor's test of self.api_key.
KeyRejected(c, key) ==
    IF c = "async"
    THEN key = <<>> \/ Strip(key) = <<>>
    ELSE key = <<>>

\* {"Authorization": f"Bearer {self.api_key}"}
AuthHeaders(key) == [Authorization |-> <<"Bearer">> \o key]

\* a dict with no entry
NoHeaders == [name \in {} |-> <<>>]

\* no client object
NoClient == [api_key |-> <<>>, base_url |-> <<>>, headers |-> NoHeaders]

\* the constructor has not been called
NotCalled == [called |-> FALSE, api_key |-> NoneStr, env |-> NoneStr,
              base_url |-> NoneStr]

\* AurelioClient(api_key, base_url) and AsyncAurelioClient(api_key,
\* base_url) with AURELIO_API_KEY = env: the exception raised, or the
\* object built.
NewClient(c, api_key, env, base_url) ==
    LET url == IF ~Truthy(base_url) THEN DEFAULT_BASE_URL ELSE base_url.val
        key == SelectKey(api_key, env)
    IN IF KeyRejected(c, key)
       THEN [error |-> Foreign("ValueError", "API key must be provided"),
             self |-> NoClient]
       ELSE [error |-> NoError,
             self |-> [api_key |-> key, base_url |-> url,
                       headers |-> AuthHeaders(key)]]

\* HeadersAfterRequest, were the Content-Type set on self.headers itself.
HeadersAfterRequest_InPlace(c, o, h) ==
    IF c = "sync" /\ o = "extract_file"
    THEN [name \in DOMAIN h \cup {"Content-Type"} |->
              IF name = "Content-Type" THEN <<"multipart/form-data">> ELSE h[name]]
    ELSE h

\* self.headers after a request of operation o was built from it: the
\* requests read the dict, and {**self.headers, ...} builds a new one.
HeadersAfterRequest(c, o, h) == h

\* RequestHeaders, were the upload's headers built without self.headers.
RequestHeaders_ContentTypeOnly(c, o, h) ==
    IF c = "sync" /\ o = "extract_file"
    THEN [name \in {"Content-Type"} |-> <<"multipart/form-data">>]
    ELSE h

\* The headers of a request of operation o: self.headers, to which the
\* synchronous extract_file adds the encoder's Content-Type.
RequestHeaders(c, o, h) ==
    IF c = "sync" /\ o = "extract_file"
    THEN [name \in DOMAIN h \cup {"Content-Type"} |->
              IF name = "Content-Type" THEN <<"multipart/form-data">> ELSE h[name]]
    ELSE h

\* ------------------------------------------- ChunkingOptions on the wire
\* class ChunkerType(str, Enum)
ChunkerType == {"semantic", "regex"}

\* A member of the enumeration ChunkerType, and the values JSON carries.
Member(value) == [type |-> "ChunkerType", value |-> value]
JsonString(chars) == [type |-> "string", value |-> chars]
JsonNumber(n) == [type |-> "number", value |-> n]
JsonArray(items) == [type |-> "array", value |-> items]

\* ChunkingOptions(max_chunk_length=..., chunker_type=..., window_size=...,
\* delimiters=...)
ChunkingOptions(max_chunk_length, chunker_type, window_size, delimiters) ==
    [max_chunk_length |-> max_chunk_length, chunker_type |-> chunker_type,
     window_size |-> window_size, delimiters |-> delimiters]

\* EnumToJson, were the member written as str() shows it.
EnumToJson_ByName(member) ==
    JsonString(<<member.type, ".", member.value>>)

\* json.dumps of a member of a str enumeration: its value
EnumToJson(member) == JsonString(<<member.value>>)

\* payload.model_dump() serialised by json=...: the processing_options
\* object of the request body
ModelDump(po) ==
    [max_chunk_length |-> JsonNumber(po.max_chunk_length),
     chunker_type |-> EnumToJson(po.chunker_type),
     window_size |-> JsonNumber(po.window_size),
     delimiters |-> JsonArray([i \in DOMAIN po.delimiters |->
                                  JsonString(<<po.delimiters[i]>>)])]

\* pydantic's validation of a JSON value for a field of type ChunkerType:
\* the member with that value, if there is one
ParseChunkerType(j) ==
    IF j.type = "string" /\ Len(j.value) = 1 /\ j.value[1] \in ChunkerType
    THEN Member(j.value[1])
    ELSE Member("ValidationError")

\* ChunkResponse(**response.json()).processing_options: ChunkingOptions
\* validated from the echoed object
ParseChunkingOptions(j) ==
    ChunkingOptions(j.max_chunk_length.value,
                    ParseChunkerType(j.chunker_type),
                    j.window_size.value,
                    [i \in DOMAIN j.delimiters.value |->
                        j.delimiters.value[i].value[1]])

\* no value at a stage not reached yet
NoOptions == ChunkingOptions(0, Member("none"), 0, <<>>)
NoJson == ModelDump(NoOptions)
NoChunking == [stage |-> "none", processing_options |-> NoOptions,
               payload |-> NoJson, echoed |-> NoJson, decoded |-> NoOptions]

\* -------------------------------------------------------- the upload
\* The bytes of the file to extract.
FileContent == <<"%PDF", "%%EOF">>

\* file.read() at position pos
Read(content, pos) == SubSeq(content, pos + 1, Len(content))

\* FilePart, were the synchronous client to rewind as the asynchronous.
FilePart_Rewinds(c, src, pos) == Read(FileContent, 0)

\* The file part of the request of one attempt.  file_path is opened and
\* read by the attempt.  The asynchronous client reads a file object after
\* seek(0), whatever its kind; the synchronous client hands the object to
\* MultipartEncoder as it is, which takes getvalue() of an io.BytesIO and
\* reads an open file from its position.
FilePart(c, src, pos) ==
    IF src = "path" THEN Read(FileContent, 0)
    ELSE IF c = "async" THEN Read(FileContent, 0)
    ELSE IF src = "file" THEN FileContent
    ELSE Read(FileContent, pos)

\* The position of the caller's file object after the attempt: the
\* asynchronous client seeks back to where it was (pos = file.tell(), ...,
\* file.seek(pos)); in the synchronous client an open file whose part was
\* sent is at its end.
PosAfterUpload_NoSeekBack(c, src, pos, sent) ==
    IF src \in {"file", "handle"} /\ (c = "async" \/ (src = "handle" /\ sent))
    THEN Len(FileContent)
    ELSE pos

\* pos = file.tell(); file.seek(0); file.read(); file.seek(pos)
PosAfterUpload(c, src, pos, sent) ==
    IF c = "sync" /\ src = "handle" /\ sent THEN Len(FileContent) ELSE pos

\* ------------------------------------------------------ model selection
\* Strings are sequences of characters.
Upper == <<"A", "B", "C", "D", "E", "F", "G", "H", "I", "J", "K", "L", "M",
           "N", "O", "P", "Q", "R", "S", "T", "U", "V", "W", "X", "Y", "Z">>
Lower == <<"a", "b", "c", "d", "e", "f", "g", "h", "i", "j", "k", "l", "m",
           "n", "o", "p", "q", "r", "s", "t", "u", "v", "w", "x", "y", "z">>

\* str.lower()
ToLower(chars) ==
    [i \in DOMAIN chars |->
        IF \E k \in DOMAIN Upper : Upper[k] = chars[i]
        THEN Lower[CHOOSE k \in DOMAIN Upper : Upper[k] = chars[i]]
        ELSE chars[i]]

\* str.rfind(ch): the last index of ch, counted from 1; 0 when absent
RFind(chars, ch) ==
    IF \E i \in DOMAIN chars : chars[i] = ch
    THEN CHOOSE i \in DOMAIN chars :
             /\ chars[i] = ch
             /\ \A j \in DOMAIN chars : chars[j] = ch => j <= i
    ELSE 0

\* pathlib.Path(p).name: the last component of the path
PathName(chars) == SubSeq(chars, RFind(chars, "/") + 1, Len(chars))

\* pathlib.Path(p).suffix: the name from its last dot on, when that dot is
\* neither the first nor the last character of the name
PathSuffix(chars) ==
    LET name == PathName(chars)
        dot == RFind(name, ".")
    IN IF 1 < dot /\ dot < Len(name)
       THEN SubSeq(name, dot, Len(name))
       ELSE <<>>

\* str.endswith(tail)
EndsWith(chars, tail) ==
    /\ Len(tail) <= Len(chars)
    /\ SubSeq(chars, Len(chars) - Len(tail) + 1, Len(chars)) = tail

\* part in chars
Contains(chars, part) ==
    \E i \in 1..(Len(chars) - Len(part) + 1) :
        SubSeq(chars, i, i + Len(part) - 1) = part

MP4 == <<".", "m", "p", "4">>
VIDEO == <<"v", "i", "d", "e", "o">>

\* is_video: file_path, or else the name attribute of the file object; an
\* io.BytesIO has no name.
IsVideoFile(src, name) ==
    /\ src \in {"path", "handle"}
    /\ PathSuffix(name) # <<>>
    /\ ToLower(PathSuffix(name)) = MP4

\* is_video_url
IsVideoUrl(url) ==
    EndsWith(ToLower(url), MP4) \/ Contains(ToLower(url), VIDEO)

\* SelectModel, were quality looked at before the kind of the source.
SelectModel_QualityFirst(video, quality) ==
    IF quality = "high" THEN "docling-base" ELSE "aurelio-base"

\* if is_video / elif quality == "high" / else
SelectModel(video, quality) ==
    IF video THEN "aurelio-base"
    ELSE IF quality = "high" THEN "docling-base"
    ELSE "aurelio-base"

\* The "model" field of the submission request.
ModelField(o, src, model, quality, name) ==
    IF model # "None" THEN model
    ELSE SelectModel(IF o = "extract_file" THEN IsVideoFile(src, name)
                     ELSE IsVideoUrl(name),
                     quality)

\* extract_file / extract_url called without model and quality.
NoExtraction == [model |-> "None", quality |-> "None",
                 name |-> <<"a", ".", "p", "d", "f">>, sent |-> "none"]

\* ------------------------------------------------ tasks of one event loop
\* AtSuspensionPoint, were wait_for to sleep with time.sleep.
AtSuspensionPoint_BlockingSleep(c, p) == c = "async" /\ p = "attempt"

\* The call is suspended at an await: the asynchronous client awaits the
\* response of each request and asyncio.sleep(polling_interval); the
\* synchronous client blocks in requests and in time.sleep.
AtSuspensionPoint(c, p) == c = "async" /\ p \in {"attempt", "sleep"}

\* The event loop can run another task: the call has not started, has
\* ended, or is suspended.
LoopFree(c, p) == p \in {"idle", "done"} \/ AtSuspensionPoint(c, p)

\* the second task has not called its operation
NoOther == [pc |-> "none", attempt |-> 0, hist |-> <<>>,
            req_headers |-> NoHeaders, outcome |-> "none",
            began |-> <<"none", 0>>, uploaded |-> <<>>]

\* ---------------------------------------------------- input validation
\* ChunkerTypeValid, were the field a plain str.
ChunkerTypeValid_Unchecked(ct) == TRUE

\* pydantic's validation of the field chunker_type: ChunkerType of
\* ChunkingOptions(chunker_type=ct, ...)
ChunkerTypeValid(ct) == ct \in ChunkerType

\* The exception raised before the attempt loop is entered: by
\* ChunkingOptions(chunker_type=po), by ChunkRequestPayload(...,
\* processing_options=None), or by extract_file given neither file_path
\* nor file.  NoError when the input passes.
InputError(o, po, src) ==
    IF o = "chunk" /\ po = "None"
    THEN Foreign("ValidationError", "processing_options")
    ELSE IF o = "chunk" /\ ~ChunkerTypeValid(po)
    THEN Foreign("ValidationError", "chunker_type")
    ELSE IF o = "extract_file" /\ src = "none"
    THEN Foreign("ValueError", "Either file_path or file must be provided")
    ELSE NoError

\* No call has been made.
NoCall ==
    /\ client = "sync"
    /\ op = "chunk"
    /\ retries = DEFAULT_RETRIES
    /\ wait = 0
    /\ polling_interval = 0
    /\ timeout = CHUNK_TIMEOUT
    /\ processing_options = "n/a"
    /\ source = "n/a"
    /\ pc = "idle"
    /\ phase = "submit"
    /\ attempt = 0
    /\ hist = <<>>
    /\ response = NoHttpResponse
    /\ fetches = 0
    /\ now = 0
    /\ start_time = 0
    /\ timeout_reached = FALSE
    /\ extract_response = NoResponse
    /\ document_response = NoResponse
    /\ result = NoResponse
    /\ error = NoError
    /\ req_timeout = None
    /\ sent_wait = <<>>
    /\ open_sessions = 0
    /\ files_open = 0
    /\ files_opened = 0
    /\ req_headers = NoHeaders
    /\ chunking = NoChunking
    /\ file_pos = 0
    /\ uploaded = <<>>
    /\ other = NoOther
    /\ extraction = NoExtraction

\* The arguments the client of Spec is built from.
DefaultArgs == [called |-> TRUE, api_key |-> Str(<<"k">>), env |-> NoneStr,
                base_url |-> NoneStr]

\* A client has been built with an api_key and the default base_url.
Init ==
    /\ NoCall
    /\ init_args = DefaultArgs
    /\ init_error = NoError
    /\ self = NewClient("sync", DefaultArgs.api_key, DefaultArgs.env,
                        DefaultArgs.base_url).self

\* ------------------------------------------------------- steps of a call
\* Raise, were wait_for to catch the error of a get_document call and the
\* extract call to return the response of its submission.
Raise_FetchErrorSwallowed(e) ==
    /\ pc' = "done"
    /\ IF phase = "poll" /\ op \in ExtractOps
       THEN error' = error /\ result' = extract_response
       ELSE error' = e /\ result' = result
    /\ UNCHANGED <<phase, attempt, fetches, start_time, timeout_reached,
                   extract_response, document_response>>

\* raise: nothing between the attempt and the caller catches the exception
Raise(e) ==
    /\ pc' = "done"
    /\ error' = e
    /\ UNCHANGED <<phase, attempt, fetches, start_time, timeout_reached,
                   extract_response, document_response, result>>

Return(r) ==
    /\ pc' = "done"
    /\ result' = r
    /\ UNCHANGED error

\* continue
Retry ==
    /\ attempt' = attempt + 1
    /\ UNCHANGED <<pc, phase, fetches, start_time, timeout_reached,
                   extract_response, document_response, result, error>>

\* An exception other than a timeout leaves the try body.
Thrown(e) ==
    IF e.type # "ApiRateLimitError"
       /\ ExceptionPolicy(client, curOp, attempt, curRetries) = "retry"
    THEN Retry
    ELSE Raise(Except(client, curOp, e))

\* The attempt is an upload of extract_file.
Uploads == phase = "submit" /\ op = "extract_file"

\* The request of one attempt is issued and ends after dt seconds.
Issued(dt) ==
    /\ pc = "attempt"
    /\ attempt <= curRetries
    /\ now' = Min(now + dt, Horizon)
    /\ req_timeout' = RequestTimeout(client, curTimeout)
    /\ sent_wait' = IF phase = "submit" /\ op \in ExtractOps
                    THEN Append(sent_wait,
                                InitialWait(client, op, polling_interval, wait))
                    ELSE sent_wait
    /\ req_headers' = RequestHeaders(client, curOp, self.headers)
    /\ uploaded' = IF Uploads
                   THEN Append(uploaded, FilePart(client, source, file_pos))
                   ELSE uploaded
    /\ self' = [self EXCEPT !.headers = HeadersAfterRequest(client, curOp, @)]
    /\ extraction' =
           IF phase = "submit" /\ op \in ExtractOps
           THEN [extraction EXCEPT
                    !.sent = ModelField(op, source, extraction.model,
                                        extraction.quality, extraction.name)]
           ELSE extraction
    /\ UNCHANGED <<args, init_args, init_error, chunking, other>>

\* The request of an attempt that fails.  The code reads the clock in
\* wait_for only (start_time = time.time(), time.time() > end_time): the
\* seconds of a submission are counted on the response that ends it, and a
\* failed submission attempt takes none of the model's seconds.
IssuedFailing(dt) ==
    /\ Issued(dt)
    /\ phase = "submit" => dt = 0

\* The attempt received e (and the HTTP response resp); the first attempt
\* of a loop starts the loop's history.
Received(e, resp) ==
    /\ hist' = Append(IF attempt = 1 THEN <<>> ELSE hist, e)
    /\ response' = resp

\* How the step leaves the blocks it is in: by the exception it raises to
\* the caller, or normally (return, break, continue).
Leaving == IF error' # NoError THEN error'.type ELSE "normal"

\* The attempt uploads from file_path: it opens the file itself.
UploadsPath == phase = "submit" /\ op = "extract_file" /\ source = "path"

\* How the attempt leaves the with block of the upload file.  The
\* synchronous client's block ends with requests.post, before the status is
\* looked at; the asynchronous client's block holds the try statement.
FileLeaving ==
    IF client = "sync"
    THEN (IF Last(hist').kind = "http" THEN "normal" ELSE Last(hist').kind)
    ELSE Leaving

\* The session, the upload file and the caller's file object after an
\* attempt whose request body was sent or not.  "continue" stays in
\* the session's block; break, return and raise leave it, and wait_for's
\* get_document opens its own after the submission's has been left.
AfterAttemptSent(sent) ==
    /\ open_sessions' =
           IF pc' = "attempt" /\ phase' = phase
           THEN open_sessions
           ELSE IF phase' # phase
           THEN OpenSession(client, ExitSession(client, open_sessions, "normal"))
           ELSE ExitSession(client, open_sessions, Leaving)
    /\ files_open' = IF UploadsPath
                     THEN CloseFile(OpenFile(files_open), FileLeaving)
                     ELSE files_open
    /\ files_opened' = IF UploadsPath THEN files_opened + 1 ELSE files_opened
    /\ file_pos' = IF Uploads
                   THEN PosAfterUpload(client, source, file_pos, sent)
                   ELSE file_pos

\* ... after an attempt whose request was sent
AfterAttempt == AfterAttemptSent(TRUE)

\* get_document(document_id=...) is called: a new attempt loop
CallGetDocument ==
    /\ attempt' = 1
    /\ pc' = "attempt"

\* EnterWaitFor, were the deadline looked at before the first get_document
\* call: with wait = 0 wait_for would return what it holds, nothing.
EnterWaitFor_DeadlineFirst ==
    /\ phase' = "poll"
    /\ start_time' = now'
    /\ IF wait' = 0
       THEN fetches' = 0 /\ pc' = "done" /\ attempt' = attempt
       ELSE fetches' = 1 /\ CallGetDocument
    /\ UNCHANGED <<timeout_reached, document_response, result, error>>

\* wait_for up to its first get_document call
EnterWaitFor ==
    /\ phase' = "poll"
    /\ start_time' = now'
    /\ fetches' = 1
    /\ CallGetDocument
    /\ UNCHANGED <<timeout_reached, document_response, result, error>>

\* The operation is called.  The caller of chunk builds its ChunkingOptions
\* first; an exception there, or before the attempt loop, ends the call
\* with no session opened.
Call(c, o, r, w, pi, t, po, src) ==
    /\ pc = "idle"
    /\ client' = c /\ op' = o /\ retries' = r /\ wait' = w
    /\ polling_interval' = pi /\ timeout' = t
    /\ processing_options' = po /\ source' = src
    /\ now' = 0
    /\ UNCHANGED <<extract_response, req_timeout, sent_wait, files_open,
                   files_opened, object, req_headers, chunking,
                   file_pos, uploaded,
                   other, extraction>>
    /\ open_sessions' = IF InputError(o, po, src) # NoError
                        THEN open_sessions
                        ELSE OpenSession(c, open_sessions)
    /\ IF InputError(o, po, src) # NoError
       THEN /\ Raise(InputError(o, po, src))
            /\ UNCHANGED <<hist, response>>
       ELSE IF o = "wait_for"
       THEN EnterWaitFor /\ UNCHANGED <<hist, response>>
       ELSE /\ pc' = "attempt"
            /\ attempt' = 1
            /\ UNCHANGED <<hist, response, phase, fetches, start_time,
                           timeout_reached, document_response, result, error>>

\* The response record decoded from the body of the running attempt.
Decoded(st) ==
    [src |-> IF phase = "poll" THEN "fetch" ELSE "submit",
     n |-> IF phase = "poll" THEN fetches ELSE attempt,
     status |-> st]

\* status 200 with a body that decodes
RespOk(status, st, dt) ==
    /\ Classify(status) = "ok"
    /\ Issued(dt)
    /\ IF phase = "poll"
       THEN \* get_document returns into wait_for
            /\ Received(Http(status, TRUE), [status |-> status, body |-> "document"])
            /\ document_response' = Decoded(st)
            /\ UNCHANGED <<phase, attempt, fetches, start_time, timeout_reached,
                           extract_response, error>>
            /\ IF st \in FINAL_STATES
               THEN pc' = "done" /\ result' = Decoded(st)
               ELSE pc' = "sleep" /\ UNCHANGED result
       ELSE IF op \in ExtractOps
       THEN /\ extract_response' = Decoded(st)
            /\ IF SkipsPolling(client, op, wait, polling_interval, st)
               THEN /\ Return(Decoded(st))
                    /\ UNCHANGED <<phase, attempt, fetches, start_time,
                                   timeout_reached, document_response>>
               ELSE EnterWaitFor
            /\ Received(Http(status, TRUE), [status |-> status, body |-> "document"])
       ELSE /\ st = "completed"
            /\ Received(Http(status, TRUE), [status |-> status, body |-> "document"])
            /\ Return(Decoded(st))
            /\ UNCHANGED <<phase, attempt, fetches, start_time, timeout_reached,
                           extract_response, document_response>>
    /\ AfterAttempt

\* status 200 with a body that response.json() or the response record rejects
RespMalformed(status, dt) ==
    /\ Classify(status) = "ok"
    /\ IssuedFailing(dt)
    /\ Received(Http(status, FALSE), [status |-> status, body |-> "malformed"])
    /\ Thrown(Foreign("ValidationError", "malformed"))
    /\ AfterAttempt

\* status 429
RespRateLimit(status, body, dt) ==
    /\ Classify(status) = "rate_limit"
    /\ IssuedFailing(dt)
    /\ Received(Http(status, FALSE), [status |-> status, body |-> body])
    /\ Thrown(RateLimitError(client, curOp, status))
    /\ AfterAttempt

\* status >= 500
RespServerError(status, body, dt) ==
    /\ Classify(status) = "server_error"
    /\ IssuedFailing(dt)
    /\ Received(Http(status, FALSE), [status |-> status, body |-> body])
    /\ IF IsLastAttempt(attempt, curRetries)
       THEN Thrown(StatusError(client, status, body))
       ELSE Retry
    /\ AfterAttempt

\* any other status
RespClientError(status, body, dt) ==
    /\ Classify(status) = "client_error"
    /\ IssuedFailing(dt)
    /\ Received(Http(status, FALSE), [status |-> status, body |-> body])
    /\ Thrown(StatusError(client, status, body))
    /\ AfterAttempt

\* A timeout is in force for every request of the asynchronous client (a
\* session given timeout=None keeps aiohttp's default) and for the requests
\* of the synchronous client made with a timeout.
TimeoutPossible == client = "async" \/ curTimeout # None

\* the transport times out
Timeout(kind, dt) ==
    /\ TimeoutPossible
    /\ IssuedFailing(dt)
    /\ Received(Failure("timeout"), NoHttpResponse)
    /\ LET policy == TimeoutPolicy(client, curOp, kind, attempt, curRetries)
       IN IF policy = "retry" THEN Retry
          ELSE IF policy = "raise_timeout"
          THEN Raise(ApiTimeoutError(TRUE, curTimeout))
          ELSE Thrown(Foreign("Timeout", "timed out"))
    /\ AfterAttemptSent(kind # "conn_timeout")

\* the transport fails otherwise (connection reset)
TransportError(dt) ==
    /\ IssuedFailing(dt)
    /\ Received(Failure("exc"), NoHttpResponse)
    /\ Thrown(Foreign("ConnectionError", "Connection reset by peer"))
    /\ AfterAttempt

\* The task running the call is cancelled while the request of an attempt
\* is in flight: asyncio.CancelledError is raised at the await.
Cancelled(dt) ==
    /\ client = "async"
    /\ IssuedFailing(dt)
    /\ Received(Failure("cancelled"), NoHttpResponse)
    /\ IF IsException("CancelledError")
       THEN Thrown(Foreign("CancelledError", "cancelled"))
       ELSE Raise(Foreign("CancelledError", "cancelled"))
    /\ AfterAttempt

\* The for loop ends without a return, a break or a raise.
LoopExhausted ==
    /\ pc = "attempt"
    /\ attempt > curRetries
    /\ IF client = "sync" /\ curOp \in ExtractOps
       THEN \* "if extract_response is None" reads a name never assigned
            Raise(Foreign("UnboundLocalError", "extract_response"))
       ELSE Raise(ApiError(<<"Failed to get response">>, None, TRUE))
    /\ open_sessions' = ExitSession(client, open_sessions, "normal")
    /\ UNCHANGED <<args, hist, response, now, req_timeout, sent_wait,
                   files_open, files_opened, object, req_headers, chunking,
                   file_pos, uploaded,
                   other, extraction>>

\* wait_for: sleep, the deadline check and the next get_document call.
\* fetches counts the get_document calls: all of them when a deadline and
\* a positive interval bound their number, up to MaxFetches otherwise.
Sleep(d) ==
    /\ pc = "sleep"
    /\ UNCHANGED <<args, phase, start_time, extract_response, document_response,
                   req_timeout, sent_wait, files_open, files_opened, object,
                   req_headers, chunking, file_pos, uploaded,
                   other, extraction>>
    /\ IF client = "sync" /\ polling_interval < 0
       THEN \* time.sleep of a negative length
            /\ d = 0
            /\ pc' = "done"
            /\ error' = Foreign("ValueError", "sleep length must be non-negative")
            /\ UNCHANGED <<now, hist, response, attempt, fetches,
                           timeout_reached, result>>
       ELSE /\ now' = Min(now + Max(polling_interval, 0) + d, Horizon)
            /\ IF DeadlinePassed(now', EndTime(start_time, wait))
               THEN /\ timeout_reached' = TRUE
                    /\ pc' = "done"
                    /\ result' = OnDeadline(document_response, wait).result
                    /\ error' = OnDeadline(document_response, wait).error
                    /\ UNCHANGED <<hist, response, attempt, fetches>>
               ELSE /\ fetches' = IF wait >= 0 /\ polling_interval > 0
                                   THEN fetches + 1
                                   ELSE Min(fetches + 1, MaxFetches)
                    /\ CallGetDocument
                    /\ UNCHANGED <<hist, response, timeout_reached, result, error>>
    /\ open_sessions' = IF pc' = "attempt"
                        THEN OpenSession(client, open_sessions)
                        ELSE open_sessions

\* The calls the model makes: each operation with the arguments it takes.
Calls ==
    \E c \in Clients, o \in Ops :
        \E r \in (IF o = "wait_for" THEN {DEFAULT_RETRIES} ELSE RetriesArgs),
           w \in (IF o \in ExtractOps \cup {"wait_for"} THEN WaitArgs ELSE {0}),
           pi \in (IF o \in ExtractOps \cup {"wait_for"} THEN IntervalArgs ELSE {0}),
           po \in (IF o = "chunk" THEN {"regex", "invalid", "None"} ELSE {"n/a"}),
           src \in (IF o # "extract_file" THEN {"n/a"}
                   ELSE IF c = "sync" THEN {"path", "file", "handle", "none"}
                   ELSE {"path", "file", "none"}) :
            \E t \in (IF o \in ExtractOps THEN {SessionTimeout(w)}
                      ELSE IF o = "wait_for" THEN {DEFAULT_TIMEOUT}
                      ELSE TimeoutArgs) :
                Call(c, o, r, w, pi, t, po, src)

Next ==
    \/ pc = "idle" /\ Calls
    \/ pc = "attempt" /\ \E status \in Statuses, st \in DocStatuses, dt \in ReqTimes :
                            RespOk(status, st, dt)
    \/ pc = "attempt" /\ \E status \in Statuses, dt \in ReqTimes :
                            RespMalformed(status, dt)
    \/ pc = "attempt" /\ \E status \in Statuses, body \in Bodies, dt \in ReqTimes :
                            RespRateLimit(status, body, dt)
    \/ pc = "attempt" /\ \E status \in Statuses, body \in Bodies, dt \in ReqTimes :
                            RespServerError(status, body, dt)
    \/ pc = "attempt" /\ \E status \in Statuses, body \in Bodies, dt \in ReqTimes :
                            RespClientError(status, body, dt)
    \/ pc = "attempt" /\ \E kind \in TimeoutKinds, dt \in ReqTimes : Timeout(kind, dt)
    \/ pc = "attempt" /\ \E dt \in ReqTimes : TransportError(dt)
    \/ pc = "attempt" /\ \E dt \in ReqTimes : Cancelled(dt)
    \/ LoopExhausted
    \/ pc = "sleep" /\ \E d \in Oversleep : Sleep(d)

Spec == Init /\ [][Next]_vars

\* ----------------------------------------------- polling without a deadline
\* A status fetch of wait_for finds the document completed or failed.
FetchTerminal ==
    /\ pc = "attempt"
    /\ phase = "poll"
    /\ \E st \in {"completed", "failed"}, dt \in ReqTimes : RespOk(200, st, dt)

\* extract_file, extract_url and wait_for called with wait = -1 and
\* polling_interval > 0.
CallsLive ==
    \E c \in Clients, o \in ExtractOps \cup {"wait_for"} :
        \E r \in (IF o = "wait_for" THEN {DEFAULT_RETRIES} ELSE 1..MaxRetries),
           pi \in 1..MaxInterval,
           src \in (IF o = "extract_file" THEN {"path", "file"} ELSE {"n/a"}) :
            Call(c, o, r, -1, pi,
                 IF o = "wait_for" THEN DEFAULT_TIMEOUT ELSE SessionTimeout(-1),
                 "n/a", src)

\* The calls of CallsLive in an environment where every status fetch
\* succeeds; a submission may still meet a status >= 500.
NextLive ==
    \/ pc = "idle" /\ CallsLive
    \/ pc = "attempt" /\ \E st \in DocStatuses, dt \in ReqTimes : RespOk(200, st, dt)
    \/ pc = "attempt" /\ phase = "submit"
           /\ \E status \in Statuses, body \in Bodies, dt \in ReqTimes :
                  RespServerError(status, body, dt)
    \/ pc = "sleep" /\ \E d \in Oversleep : Sleep(d)

\* Every sleep and every request of the poll loop ends (weak fairness), and
\* the remote document reaches completed or failed and stays there: a poll
\* loop that fetches again and again finds it so (strong fairness).
LiveSpec ==
    /\ Init
    /\ [][NextLive]_vars
    /\ WF_vars(NextLive)
    /\ SF_vars(FetchTerminal)

\* ------------------------------------------------- construction, then calls
\* Characters of the strings the constructor is given.
ApiKeyArgs == {NoneStr, Str(<<>>), Str(<<" ">>), Str(<<"k">>), Str(<<" ", "k">>)}
EnvValues == {NoneStr, Str(<<>>), Str(<<" ">>), Str(<<"e">>)}
BaseUrlArgs == {NoneStr, Str(<<>>), Str(<<"http://localhost:8000">>)}

\* c(api_key=api_key, base_url=base_url) with AURELIO_API_KEY = env
Construct(c, api_key, env, base_url) ==
    /\ pc = "idle"
    /\ ~init_args.called
    /\ init_args' = [called |-> TRUE, api_key |-> api_key, env |-> env,
                     base_url |-> base_url]
    /\ client' = c
    /\ init_error' = NewClient(c, api_key, env, base_url).error
    /\ self' = NewClient(c, api_key, env, base_url).self
    /\ UNCHANGED <<op, retries, wait, polling_interval, timeout,
                   processing_options, source, pc, phase, attempt, hist,
                   response, fetches, now, start_time, timeout_reached,
                   extract_response, document_response, result, error,
                   req_timeout, sent_wait, open_sessions, files_open,
                   files_opened, req_headers, chunking, file_pos, uploaded,
                   other, extraction>>

\* The constructor has not been called yet.
InitClient ==
    /\ NoCall
    /\ init_args = NotCalled
    /\ init_error = NoError
    /\ self = NoClient

\* Each operation called on the client that was built; the extract
\* operations and wait_for poll without a deadline.
CallsClient ==
    \E o \in Ops :
        \E r \in (IF o = "wait_for" THEN {DEFAULT_RETRIES} ELSE 1..MaxRetries),
           src \in (IF o = "extract_file" THEN {"path", "file"} ELSE {"n/a"}) :
            LET polls == o \in ExtractOps \cup {"wait_for"}
            IN Call(client, o, r,
                    IF polls THEN -1 ELSE 0,
                    IF polls THEN MaxInterval ELSE 0,
                    IF o \in ExtractOps THEN SessionTimeout(-1)
                    ELSE IF o = "chunk" THEN CHUNK_TIMEOUT ELSE DEFAULT_TIMEOUT,
                    IF o = "chunk" THEN "regex" ELSE "n/a", src)

\* A client is built from any arguments and environment; its operations
\* meet well-formed 200 responses and status 500, and no step takes time.
NextClient ==
    \/ \E c \in Clients, api_key \in ApiKeyArgs, env \in EnvValues,
          base_url \in BaseUrlArgs : Construct(c, api_key, env, base_url)
    \/ pc = "idle" /\ self # NoClient /\ CallsClient
    \/ pc = "attempt" /\ \E st \in DocStatuses : RespOk(200, st, 0)
    \/ pc = "attempt" /\ RespServerError(500, "Internal Server Error", 0)
    \/ pc = "sleep" /\ Sleep(0)

ClientSpec == InitClient /\ [][NextClient]_vars

\* --------------------------------------- processing options, round trip
\* Values of the fields of ChunkingOptions.
ChunkLengths == {4, 400}
WindowSizes == {1, 5}
DelimiterLists == {<<>>, <<"|">>, <<"|", "/", "@">>, <<"@", "|">>}

\* every variable but chunking
notChunking == <<client, op, retries, wait, polling_interval, timeout,
                 processing_options, source, pc, phase, attempt, hist,
                 response, fetches, now, start_time, timeout_reached,
                 extract_response, document_response, result, error,
                 req_timeout, sent_wait, open_sessions, files_open,
                 files_opened, init_args, init_error, self, req_headers,
                 file_pos, uploaded,
                   other, extraction>>

\* chunking_options = ChunkingOptions(...)
BuildOptions(l, ct, w, d) ==
    /\ chunking.stage = "none"
    /\ chunking' = [chunking EXCEPT !.stage = "built",
                        !.processing_options = ChunkingOptions(l, Member(ct), w, d)]
    /\ UNCHANGED notChunking

\* chunk: json=payload.model_dump()
EncodePayload ==
    /\ chunking.stage = "built"
    /\ chunking' = [chunking EXCEPT !.stage = "sent",
                        !.payload = ModelDump(chunking.processing_options)]
    /\ UNCHANGED notChunking

\* The server answers 200 and echoes the processing options it was sent.
Echo ==
    /\ chunking.stage = "sent"
    /\ chunking' = [chunking EXCEPT !.stage = "echoed",
                        !.echoed = chunking.payload]
    /\ UNCHANGED notChunking

\* chunk: ChunkResponse(**response.json())
DecodeResponse ==
    /\ chunking.stage = "echoed"
    /\ chunking' = [chunking EXCEPT !.stage = "decoded",
                        !.decoded = ParseChunkingOptions(chunking.echoed)]
    /\ UNCHANGED notChunking

NextOptions ==
    \/ \E l \in ChunkLengths, ct \in ChunkerType, w \in WindowSizes,
          d \in DelimiterLists : BuildOptions(l, ct, w, d)
    \/ EncodePayload
    \/ Echo
    \/ DecodeResponse

\* A caller builds options for a client built as in Spec.
OptionsSpec == Init /\ [][NextOptions]_vars

\* ------------------------------------------------------ two tasks
\* every variable of the first call
callVars == <<client, op, retries, wait, polling_interval, timeout,
              processing_options, source, pc, phase, attempt, hist,
              response, fetches, now, start_time, timeout_reached,
              extract_response, document_response, result, error,
              req_timeout, sent_wait, open_sessions, files_open,
              files_opened, req_headers, file_pos, uploaded, extraction>>

\* The second task calls get_document on the same client; began records
\* where the first call was.
OtherCall ==
    /\ LoopFree(client, pc)
    /\ self # NoClient
    /\ other.pc = "none"
    /\ other' = [other EXCEPT !.pc = "attempt", !.attempt = 1,
                               !.began = <<pc, fetches>>]
    /\ UNCHANGED <<callVars, object, chunking>>

\* One attempt of the second task's get_document: its request, built from
\* self.headers, is answered.
OtherResponds(status) ==
    /\ LoopFree(client, pc)
    /\ other.pc = "attempt"
    /\ other.attempt <= DEFAULT_RETRIES
    /\ LET sent == [other EXCEPT
                       !.hist = Append(@, status),
                       !.req_headers = RequestHeaders(client, "get_document",
                                                      self.headers)]
       IN other' =
           IF Classify(status) = "ok"
           THEN [sent EXCEPT !.pc = "done", !.outcome = "returned"]
           ELSE IF Classify(status) = "server_error"
                   /\ ~IsLastAttempt(other.attempt, DEFAULT_RETRIES)
           THEN [sent EXCEPT !.attempt = @ + 1]
           ELSE [sent EXCEPT !.pc = "done", !.outcome = "raised"]
    /\ self' = [self EXCEPT
                   !.headers = HeadersAfterRequest(client, "get_document", @)]
    /\ UNCHANGED <<callVars, init_args, init_error, chunking>>

\* The second task calls extract_file on the same asynchronous client with
\* the file object the first call was given.
OtherExtractFile ==
    /\ client = "async"
    /\ op = "extract_file"
    /\ source = "file"
    /\ AtSuspensionPoint(client, pc)
    /\ other.pc = "none"
    /\ other' = [other EXCEPT !.pc = "upload", !.attempt = 1,
                               !.began = <<pc, fetches>>]
    /\ UNCHANGED <<callVars, object, chunking>>

\* One attempt of the second task's extract_file: it reads the file
\* object, and its request is answered.
OtherUploads(status) ==
    /\ LoopFree(client, pc)
    /\ other.pc = "upload"
    /\ other.attempt <= DEFAULT_RETRIES
    /\ LET sent == [other EXCEPT
                       !.hist = Append(@, status),
                       !.req_headers = RequestHeaders(client, "extract_file",
                                                      self.headers),
                       !.uploaded = Append(@, FilePart(client, source,
                                                       file_pos))]
       IN other' =
           IF Classify(status) = "ok"
           THEN [sent EXCEPT !.pc = "done", !.outcome = "returned"]
           ELSE IF Classify(status) = "server_error"
                   /\ ~IsLastAttempt(other.attempt, DEFAULT_RETRIES)
           THEN [sent EXCEPT !.attempt = @ + 1]
           ELSE [sent EXCEPT !.pc = "done", !.outcome = "raised"]
    /\ file_pos' = PosAfterUpload(client, source, file_pos, TRUE)
    /\ self' = [self EXCEPT
                   !.headers = HeadersAfterRequest(client, "extract_file", @)]
    /\ UNCHANGED <<client, op, retries, wait, polling_interval, timeout,
                   processing_options, source, pc, phase, attempt, hist,
                   response, fetches, now, start_time, timeout_reached,
                   extract_response, document_response, result, error,
                   req_timeout, sent_wait, open_sessions, files_open,
                   files_opened, req_headers, uploaded,
                   init_args, init_error, chunking, extraction>>

\* The caller has read from the file object, or has moved in it, before
\* handing it to extract_file.
CallerSeeks(p) ==
    /\ pc = "idle"
    /\ other.pc = "none"
    /\ file_pos = 0
    /\ file_pos' = p
    /\ UNCHANGED <<client, op, retries, wait, polling_interval, timeout,
                   processing_options, source, pc, phase, attempt, hist,
                   response, fetches, now, start_time, timeout_reached,
                   extract_response, document_response, result, error,
                   req_timeout, sent_wait, open_sessions, files_open,
                   files_opened, req_headers, uploaded,
                   object, chunking, other, extraction>>

\* extract_file and wait_for, polling without a deadline.
CallsTwo ==
    \E c \in Clients, o \in {"extract_file", "wait_for"},
       pi \in 1..MaxInterval :
        Call(c, o, IF o = "wait_for" THEN DEFAULT_RETRIES ELSE MaxRetries,
             -1, pi,
             IF o = "wait_for" THEN DEFAULT_TIMEOUT ELSE SessionTimeout(-1),
             "n/a", IF o = "extract_file" THEN "file" ELSE "n/a")

\* A call and a second task on one event loop: the second task runs
\* whenever the loop is free.
NextTwo ==
    \/ pc = "idle" /\ CallsTwo
    \/ pc = "attempt" /\ \E st \in DocStatuses : RespOk(200, st, 0)
    \/ pc = "attempt" /\ RespServerError(500, "Internal Server Error", 0)
    \/ pc = "sleep" /\ Sleep(0)
    \/ OtherCall
    \/ \E status \in {200, 500} : OtherResponds(status)
    \/ OtherExtractFile
    \/ \E status \in {200, 500} : OtherUploads(status)
    \/ \E p \in 1..Len(FileContent) : CallerSeeks(p)

TwoTaskSpec == Init /\ [][NextTwo]_vars

\* ======================================================== properties
Range(f) == {f[i] : i \in DOMAIN f}
AllServerErrors(h) == \A i \in 1..Len(h) : Is5xx(h[i])

\* wait_for has been entered from extract_file / extract_url and its first
\* get_document call has not issued a request: hist is still the history
\* of the submission.
JustEnteredPolling ==
    /\ op \in ExtractOps
    /\ phase = "poll"
    /\ pc = "attempt"
    /\ attempt = 1
    /\ fetches = 1

\* hist is the history of the attempt loop of the operation called.
OwnLoopHist == op \in RetryOps /\ (phase = "submit" \/ JustEnteredPolling)

\* The budget is N = retries, attempts 1..N-1 received a status >= 500 and
\* attempt N received 200 with a well-formed body.
FailuresThenSuccess ==
    /\ OwnLoopHist
    /\ retries >= 1
    /\ Len(hist) = retries
    /\ \A i \in 1..(retries - 1) : Is5xx(hist[i])
    /\ IsSuccess(hist[retries])

\* C1: a 429 response on any attempt, in the loop of any operation (the
\* get_document calls of wait_for included), is the last request of the
\* call: the call has ended there, with ApiRateLimitError and not ApiError,
\* and the attempt counter has not moved on.
C1_RateLimitRaisesAtOnce ==
    \A i \in 1..Len(hist) :
        IsRateLimit(hist[i]) =>
            /\ i = Len(hist)
            /\ attempt = i
            /\ pc = "done"
            /\ error.type = "ApiRateLimitError"
            /\ result = NoResponse

\* A 429 on the first attempt of a call whose budget is larger.
C1_Witness ==
    /\ pc = "done"
    /\ Len(hist) = 1
    /\ IsRateLimit(hist[1])
    /\ phase = "submit"
    /\ retries >= 2
    /\ error.type = "ApiRateLimitError"

\* C2 as stated: after N-1 statuses >= 500 and a well-formed 200 on attempt
\* N = retries, the call has returned the result decoded from attempt N and
\* has raised nothing.
C2_Original ==
    FailuresThenSuccess =>
        /\ pc = "done"
        /\ error = NoError
        /\ result.src = "submit"
        /\ result.n = retries

\* C2 as amended: a status >= 500 on an attempt before the last is followed
\* by the next attempt; after N-1 of them and a well-formed 200 on attempt
\* N = retries nothing is raised, chunk, get_document and embedding have
\* returned the result decoded from attempt N, and extract_file and
\* extract_url hold it as the submission response, which they have returned
\* when wait = 0, or its status is completed or failed, or
\* polling_interval = 0, or polling_interval < 0 outside the asynchronous
\* extract_url; otherwise they have entered wait_for.
C2_FailuresThenSuccess ==
    /\ (OwnLoopHist /\ Len(hist) >= 1 /\ Len(hist) < retries /\ AllServerErrors(hist)) =>
            /\ pc = "attempt"
            /\ attempt = Len(hist) + 1
            /\ error = NoError
    /\ FailuresThenSuccess =>
            /\ error = NoError
            /\ IF op \in ExtractOps
               THEN /\ extract_response.src = "submit"
                    /\ extract_response.n = retries
                    /\ IF \/ wait = 0
                          \/ extract_response.status \in {"completed", "failed"}
                          \/ polling_interval = 0
                          \/ (polling_interval < 0 /\ ~(client = "async" /\ op = "extract_url"))
                       THEN pc = "done" /\ result = extract_response
                       ELSE JustEnteredPolling /\ result = NoResponse
               ELSE /\ pc = "done"
                    /\ result.src = "submit"
                    /\ result.n = retries

\* One status >= 500 and then a success on the second and last attempt,
\* returned by the call.
C2_Witness ==
    /\ FailuresThenSuccess
    /\ retries = 2
    /\ pc = "done"
    /\ result.n = 2

\* C3: while every attempt of a loop has received a status >= 500, at most
\* retries requests have been issued; before the last the next attempt is
\* up, and at the last the call has ended with ApiError.
C3_ServerErrorsExhaust ==
    (Len(hist) >= 1 /\ AllServerErrors(hist)) =>
        /\ Len(hist) <= curRetries
        /\ IF Len(hist) = curRetries
           THEN pc = "done" /\ error.type = "ApiError" /\ attempt = curRetries
           ELSE pc = "attempt" /\ attempt = Len(hist) + 1 /\ error = NoError

\* Two statuses >= 500 exhaust a budget of two.
C3_Witness ==
    /\ pc = "done"
    /\ phase = "submit"
    /\ retries = 2
    /\ Len(hist) = 2
    /\ AllServerErrors(hist)
    /\ error.type = "ApiError"

\* C4 as stated: when the last allowed attempt receives a status >= 500, the
\* error raised has that status as its status_code and the body in its
\* message.
C4_Original ==
    (pc = "done" /\ Len(hist) >= 1 /\ Len(hist) = curRetries /\ Is5xx(Last(hist))) =>
        /\ error.type = "ApiError"
        /\ error.status_code = response.status
        /\ response.body \in Range(error.message)

\* C5: a status other than 200 and 429 and below 500 on attempt k is the
\* last request of the call, which has ended there with ApiError; and a
\* result is returned only after a status of exactly 200.
C5_OtherStatusFailsAtOnce ==
    /\ \A i \in 1..Len(hist) :
           IsOtherStatus(hist[i]) =>
               /\ i = Len(hist)
               /\ attempt = i
               /\ pc = "done"
               /\ error.type = "ApiError"
               /\ result = NoResponse
    /\ result # NoResponse =>
           /\ Len(hist) >= 1
           /\ Last(hist).kind = "http"
           /\ Last(hist).status = 200

\* A 204 on the first attempt of a call whose budget is larger.
C5_Witness ==
    /\ pc = "done"
    /\ Len(hist) = 1
    /\ hist[1].kind = "http"
    /\ hist[1].status = 204
    /\ curRetries >= 2
    /\ error.type = "ApiError"

\* C6 as stated: a timeout on an attempt before the last is followed by the
\* next attempt, and a timeout on the last attempt ends the call with
\* ApiTimeoutError carrying the timeout of the request.
C6_Original ==
    (Len(hist) >= 1 /\ IsTimeout(Last(hist))) =>
        IF Len(hist) < curRetries
        THEN pc = "attempt" /\ attempt = Len(hist) + 1
        ELSE /\ pc = "done"
             /\ error.type = "ApiTimeoutError"
             /\ ToString(curTimeout) \in Range(error.message)

C8_WaitZeroNeverPolls ==
    (op \in ExtractOps /\ wait = 0) =>
        /\ phase = "submit"
        /\ fetches = 0
        /\ (Len(hist) >= 1 /\ IsSuccess(Last(hist))) =>
               /\ pc = "done"
               /\ error = NoError
               /\ result = extract_response
               /\ result.src = "submit"
               /\ result.n = Len(hist)

\* wait = 0 with polling enabled and a pending submission response.
C8_Witness ==
    /\ op \in ExtractOps
    /\ wait = 0
    /\ polling_interval > 0
    /\ pc = "done"
    /\ result.src = "submit"
    /\ result.status = "pending"

\* C9 as stated: with polling_interval <= 0 and wait > 0, once the first
\* submission attempt has succeeded the call has returned the submission
\* response; wait_for is never entered and get_document never called.
C9_Original ==
    (op \in ExtractOps /\ polling_interval <= 0 /\ wait > 0) =>
        /\ phase = "submit"
        /\ fetches = 0
        /\ (Len(hist) >= 1 /\ IsSuccess(hist[1])) =>
               /\ Len(hist) = 1
               /\ pc = "done"
               /\ result = extract_response

StateOutcome ==
    IF pc # "done" THEN "running"
    ELSE IF error = NoError THEN "result"
    ELSE error.type

Other(c) == IF c = "sync" THEN "async" ELSE "sync"

\* What the attempt loop of operation o in client c does when attempt a of
\* r receives e: the outcome it ends the call with, or "retry".
AttemptDecision(c, o, e, a, r) ==
    IF IsSuccess(e) THEN "result"
    ELSE IF IsRateLimit(e) THEN "ApiRateLimitError"
    ELSE IF Is5xx(e) THEN (IF IsLastAttempt(a, r) THEN "ApiError" ELSE "retry")
    ELSE IF IsTimeout(e)
    THEN (LET policy == TimeoutPolicy(c, o, "timeout", a, r)
          IN IF policy = "retry" THEN "retry"
             ELSE IF policy = "raise_timeout" THEN "ApiTimeoutError"
             ELSE "ApiError")
    ELSE IF ExceptionPolicy(c, o, a, r) = "retry" /\ ~IsLastAttempt(a, r)
    THEN "retry"
    ELSE "ApiError"

\* C11: wait_for, called or entered from extract_file / extract_url, has
\* called get_document at least once, and whatever it holds or returns
\* afterwards is the response of a get_document call.
C11_WaitForFetchesFirst ==
    phase = "poll" =>
        /\ fetches >= 1
        /\ (pc = "sleep" \/ (pc = "done" /\ error = NoError)) =>
               /\ document_response.src = "fetch"
               /\ document_response.n >= 1
        /\ (pc = "done" /\ error = NoError) =>
               /\ result = document_response
               /\ IsSuccess(Last(hist))

\* wait_for called with wait = 0 returns the pending response of its one
\* fetch.
C11_Witness ==
    /\ op = "wait_for"
    /\ wait = 0
    /\ pc = "done"
    /\ fetches = 1
    /\ result.src = "fetch"
    /\ result.status = "pending"

\* C12: once wait_for has fetched a response whose status is completed or
\* failed, the call has returned that response: no sleep and no get_document
\* call follows it; and once a submission response of extract_file /
\* extract_url has one of these statuses the call has returned it without
\* having entered wait_for.
C12_TerminalReturnsAtOnce ==
    /\ (phase = "poll" /\ document_response.status \in {"completed", "failed"}) =>
           /\ pc = "done"
           /\ error = NoError
           /\ ~timeout_reached
           /\ result = document_response
           /\ result.n = fetches
           /\ IsSuccess(Last(hist))
    /\ (op \in ExtractOps /\ extract_response.status \in {"completed", "failed"}) =>
           /\ pc = "done"
           /\ error = NoError
           /\ phase = "submit"
           /\ fetches = 0
           /\ result = extract_response

\* The second fetch of wait_for finds the document failed.
C12_Witness ==
    /\ op = "wait_for"
    /\ pc = "done"
    /\ document_response.status = "failed"
    /\ document_response.n = 2
    /\ result = document_response

\* C13: with wait = -1 and polling_interval > 0 the deadline is never found
\* passed, and extract_file, extract_url and wait_for end either with an
\* exception or with a response whose status is completed or failed.
C13_UnboundedWaitNeverReturnsPending ==
    (op \in ExtractOps \cup {"wait_for"} /\ wait = -1 /\ polling_interval > 0) =>
        /\ ~timeout_reached
        /\ pc = "done" =>
               \/ error # NoError
               \/ result.status \in {"completed", "failed"}

\* extract_url with wait = -1 polls until the latest instant of the model
\* and returns a completed document.
C13_Witness ==
    /\ op = "extract_url"
    /\ wait = -1
    /\ polling_interval > 0
    /\ pc = "done"
    /\ now = Horizon
    /\ result.src = "fetch"
    /\ result.status = "completed"

\* C14: with wait = -1 and polling_interval > 0, when every status fetch
\* succeeds and the document reaches completed or failed and stays there, a
\* call that is polling eventually returns a fetched response with that
\* status.
C14_PollingEventuallyReturnsTerminal ==
    (phase = "poll") ~>
        (/\ pc = "done"
         /\ error = NoError
         /\ result.src = "fetch"
         /\ result.status \in {"completed", "failed"})

\* wait_for with wait = -1 returns completed after a fetch that found the
\* document pending.
C14_Witness ==
    /\ op = "wait_for"
    /\ wait = -1
    /\ polling_interval > 0
    /\ pc = "done"
    /\ result.n = 2
    /\ result.status = "completed"

\* C15 as stated: every submission request of extract_file / extract_url
\* carries WAIT_TIME_BEFORE_POLLING as its wait when polling_interval > 0
\* and the caller's wait when polling_interval <= 0.
C15_Original ==
    op \in ExtractOps =>
        \A i \in 1..Len(sent_wait) :
            sent_wait[i] = IF polling_interval > 0
                           THEN WAIT_TIME_BEFORE_POLLING
                           ELSE wait

\* C16 as stated: every request that has been issued was made with a
\* timeout.
C16_Original ==
    Len(hist) >= 1 => req_timeout # None

\* C17 as stated: when a call has ended in one client after its own attempt
\* loop received some outcome on its attempt k, the loop of the same
\* operation in the other client, given the same outcome on attempt k of
\* the same budget, ends the call the same way.
C17_Original ==
    (/\ op \in RetryOps
     /\ phase = "submit"
     /\ pc = "done"
     /\ Len(hist) >= 1
     /\ Last(hist).kind # "cancelled") =>
        AttemptDecision(Other(client), op, Last(hist), Len(hist), retries)
            = StateOutcome

\* C18: the asynchronous client has exactly one session open while an
\* attempt loop is running and none otherwise: none once the call has
\* ended, however it ended, none while wait_for sleeps, and during a
\* get_document call of the poll loop only that call's own; the
\* synchronous client opens none.
C18_SessionsScoped ==
    /\ open_sessions \in {0, 1}
    /\ client = "async" => open_sessions = (IF pc = "attempt" THEN 1 ELSE 0)
    /\ client = "sync" => open_sessions = 0

\* An asynchronous extract call that went on to poll is cancelled during a
\* status fetch.
C18_Witness ==
    /\ client = "async"
    /\ op \in ExtractOps
    /\ phase = "poll"
    /\ pc = "done"
    /\ error.type = "CancelledError"
    /\ open_sessions = 0

\* C19: no upload file handle is open between attempts, during polling or
\* after the call has ended; extract_file with file_path has opened one
\* handle for each submission request, and no other call opens any.
C19_FileHandleScoped ==
    /\ files_open = 0
    /\ files_opened = (IF op = "extract_file" /\ source = "path"
                       THEN Len(sent_wait)
                       ELSE 0)

\* extract_file with file_path: a timeout, then a pending submission
\* response, and the call is polling.
C19_Witness ==
    /\ op = "extract_file"
    /\ source = "path"
    /\ files_opened = 2
    /\ phase = "poll"
    /\ pc = "sleep"
    /\ files_open = 0

\* C20: a cancellation during the request of an attempt ends the call with
\* asyncio.CancelledError, neither ApiError nor ApiTimeoutError; no attempt
\* follows, and no session and no upload file is left open.
C20_CancellationPropagates ==
    \A i \in 1..Len(hist) :
        hist[i].kind = "cancelled" =>
            /\ i = Len(hist)
            /\ attempt = i
            /\ pc = "done"
            /\ error.type = "CancelledError"
            /\ result = NoResponse
            /\ open_sessions = 0
            /\ files_open = 0

\* The first upload attempt of an asynchronous extract_file with file_path
\* and a larger budget is cancelled.
C20_Witness ==
    /\ client = "async"
    /\ op = "extract_file"
    /\ source = "path"
    /\ retries = 2
    /\ Len(hist) = 1
    /\ hist[1].kind = "cancelled"
    /\ files_opened = 1
    /\ error.type = "CancelledError"

\* ------------------------------------------------ malformed 200 response
\* The call has ended on an attempt whose 200 response did not decode.
EndedOnMalformed ==
    /\ pc = "done"
    /\ hist # <<>>
    /\ IsMalformed(Last(hist))

\* C23, as stated: a 200 response whose body lacks a required field ends
\* the call with a validation error, not with ApiError, ApiTimeoutError or
\* ApiRateLimitError, and after exactly the attempt that received it.  The
\* code raises the ValidationError inside the try statement, whose
\* "except Exception" clause raises ApiError in its place.
C23_Original ==
    EndedOnMalformed =>
        /\ error.type = "ValidationError"
        /\ Len(hist) = attempt

LoopEnded ==
    /\ pc = "done"
    /\ op \in RetryOps
    /\ phase = "submit"
    /\ attempt > retries

\* C29, as stated: when the attempt loop of a retry-wrapped operation ends
\* without having returned or raised, the call raises the generic ApiError;
\* a call with retries <= 0 issues no request and raises ApiError.  The
\* synchronous extract_file and extract_url read extract_response, which no
\* iteration has assigned, and raise UnboundLocalError.
C29_Original ==
    /\ LoopEnded =>
           /\ error.type = "ApiError"
           /\ error.status_code = None
    /\ (pc = "done" /\ op \in RetryOps /\ retries <= 0
          /\ error.type \notin {"ValidationError", "ValueError"}) =>
           /\ error.type = "ApiError"
           /\ sent_wait = <<>>
           /\ hist = <<>>

\* ------------------------------------------------- rejected before a request
\* No request has been issued and no session or file opened.
NothingIssued ==
    /\ hist = <<>>
    /\ response = NoHttpResponse
    /\ req_timeout = None
    /\ sent_wait = <<>>
    /\ attempt = 0
    /\ open_sessions = 0
    /\ files_opened = 0

\* C24: a chunk call whose ChunkingOptions are built with a chunker_type
\* outside {semantic, regex} has ended with a validation error, and an
\* extract_file call given neither file nor file_path has ended with
\* ValueError; in both cases no HTTP request has been issued.
C24_MalformedInputRejectedFirst ==
    /\ (op = "chunk" /\ processing_options \notin ChunkerType \cup {"None", "n/a"}) =>
           /\ pc = "done"
           /\ error.type = "ValidationError"
           /\ NothingIssued
    /\ (op = "extract_file" /\ source = "none") =>
           /\ pc = "done"
           /\ error.type = "ValueError"
           /\ NothingIssued

\* chunk with chunker_type "invalid" on the synchronous client, as in
\* test_chunk_invalid, has raised the validation error.
C24_Witness ==
    /\ op = "chunk"
    /\ client = "sync"
    /\ processing_options = "invalid"
    /\ retries > 0
    /\ pc = "done"
    /\ error = Foreign("ValidationError", "chunker_type")

\* ------------------------------------------------------- the constructor
\* C25: a constructor given no usable credential (api_key argument empty
\* or None, AURELIO_API_KEY unset or empty) has raised ValueError and built
\* no client; given a non-empty api_key argument it has not looked at the
\* environment variable (its outcome is the one with the variable unset,
\* and a client it built holds the argument); a client built with an empty
\* or missing base_url holds https://api.aurelio.ai, and otherwise the
\* base_url given.
C25_ConstructorCredentials ==
    init_args.called =>
        /\ (~Truthy(init_args.api_key) /\ Getenv(init_args.env) = <<>>) =>
               /\ init_error.type = "ValueError"
               /\ self = NoClient
        /\ Truthy(init_args.api_key) =>
               /\ self # NoClient => self.api_key = init_args.api_key.val
               /\ client = "sync" => self # NoClient
               /\ [error |-> init_error, self |-> self]
                      = NewClient(client, init_args.api_key, NoneStr,
                                  init_args.base_url)
        /\ self # NoClient =>
               /\ init_error = NoError
               /\ self.base_url = IF init_args.base_url \in {NoneStr, Str(<<>>)}
                                  THEN DEFAULT_BASE_URL
                                  ELSE init_args.base_url.val
        /\ self = NoClient <=> init_error # NoError

\* A client built from the argument "k" while AURELIO_API_KEY is "e", with
\* base_url "".
C25_Witness ==
    /\ init_args.called
    /\ init_args.api_key = Str(<<"k">>)
    /\ init_args.env = Str(<<"e">>)
    /\ init_args.base_url = Str(<<>>)
    /\ self.api_key = <<"k">>
    /\ self.base_url = DEFAULT_BASE_URL

\* ------------------------------------------------ the Authorization header
\* A request has been issued.
SomeRequestIssued == hist # <<>>

\* C26: the headers of the client are Authorization: Bearer <api_key>, for
\* the api_key the constructor selected (the argument, else the
\* environment variable), and every request issued, whatever the
\* operation, carried that header.
C26_EveryRequestAuthorized ==
    /\ self # NoClient =>
           /\ self.api_key = SelectKey(init_args.api_key, init_args.env)
           /\ self.headers = [Authorization |-> <<"Bearer">> \o self.api_key]
    /\ SomeRequestIssued =>
           /\ self # NoClient
           /\ "Authorization" \in DOMAIN req_headers
           /\ req_headers["Authorization"] = <<"Bearer">> \o self.api_key

\* The synchronous extract_file, on a client whose api_key came from the
\* environment, has issued the second request of its submission.
C26_Witness ==
    /\ client = "sync"
    /\ op = "extract_file"
    /\ phase = "submit"
    /\ self.api_key = <<"e">>
    /\ Len(hist) = 2
    /\ req_headers["Authorization"] = <<"Bearer", "e">>
    /\ DOMAIN req_headers = {"Authorization", "Content-Type"}

\* ------------------------------------------- round trip of the options
\* C27: a ChunkingOptions value encoded into the chunk request and decoded
\* from the same fields echoed in the response is equal to the original,
\* field for field; on the wire the chunker type is the string of its
\* value.
C27_OptionsRoundTrip ==
    /\ chunking.stage \in {"sent", "echoed", "decoded"} =>
           chunking.payload.chunker_type
               = JsonString(<<chunking.processing_options.chunker_type.value>>)
    /\ chunking.stage = "decoded" =>
           /\ chunking.decoded = chunking.processing_options
           /\ \A f \in DOMAIN chunking.processing_options :
                  chunking.decoded[f] = chunking.processing_options[f]

\* The options of test_chunk_regex_delimiters have come back, and those of
\* test_chunk_semantic are not equal to them.
C27_Witness ==
    /\ chunking.stage = "decoded"
    /\ chunking.processing_options
           = ChunkingOptions(4, Member("regex"), 1, <<"|", "/", "@">>)
    /\ chunking.decoded.delimiters = <<"|", "/", "@">>
    /\ chunking.decoded.chunker_type = Member("regex")
    /\ chunking.decoded # ChunkingOptions(400, Member("semantic"), 5, <<>>)

\* ------------------------------------------------- what a retry uploads
\* C30, as stated: every upload attempt of extract_file sends the complete
\* content of the file, so attempt k+1 uploads the same bytes as attempt 1
\* and never an empty or partial remainder.  The synchronous client gives
\* the caller's file object to the encoder without rewinding it: the
\* attempt after one that sent an open file uploads nothing.
C30_Original ==
    \A k \in DOMAIN uploaded :
        /\ uploaded[k] = FileContent
        /\ uploaded[k] = uploaded[1]

\* ------------------------------------------------------- concurrency
\* C21: while a wait_for of the asynchronous client sleeps between two
\* status fetches, a second task of the same event loop can take its next
\* step, whether it has yet to call its operation on the client or is in
\* the middle of it.
C21_AsyncSleepSuspends ==
    (client = "async" /\ pc = "sleep" /\ phase = "poll") =>
        /\ other.pc = "none" => ENABLED OtherCall
        /\ other.pc = "attempt" => ENABLED OtherResponds(200)
        /\ other.pc = "attempt" => ENABLED OtherResponds(500)

\* The second task called get_document while the asynchronous wait_for
\* slept after its first fetch, met a 500, retried and returned, and the
\* wait_for is still in that sleep.
C21_Witness ==
    /\ client = "async"
    /\ op = "wait_for"
    /\ pc = "sleep"
    /\ fetches = 1
    /\ other.began = <<"sleep", 1>>
    /\ other.pc = "done"
    /\ other.outcome = "returned"
    /\ other.hist = <<500, 200>>

\* C22: two operations running on the same client share no mutable
\* state.  No step changes the client's api_key, base_url or headers; a
\* step of one operation leaves every variable of the other unchanged; and
\* each attempt counter is one more than the number of responses its own
\* loop has received, whatever the other operation did meanwhile.
C22_NoSharedMutableState ==
    /\ [][/\ self' = self
          /\ other' # other => callVars' = callVars
          /\ callVars' # callVars => other' = other]_vars
    /\ [](/\ self = NewClient(client, init_args.api_key, init_args.env,
                               init_args.base_url).self
          /\ (pc = "attempt" /\ attempt > 1) => attempt = Len(hist) + 1
          /\ other.pc = "attempt" => other.attempt = Len(other.hist) + 1
          /\ other.req_headers \in {NoHeaders, AuthHeaders(self.api_key)})

\* The synchronous extract_file has made two requests and the second
\* task, which ran before and after it, has made three.
C22_Witness ==
    /\ client = "sync"
    /\ op = "extract_file"
    /\ Len(sent_wait) = 2
    /\ DOMAIN req_headers = {"Authorization", "Content-Type"}
    /\ other.began = <<"idle", 0>>
    /\ Len(other.hist) = 3
    /\ self.headers = AuthHeaders(<<"k">>)
    /\ other.req_headers = self.headers

\* ------------------------------------------ chunk without processing options
\* C32, as stated: chunk called without processing_options enters its
\* attempt loop and issues a request (whose options are the defaults); it
\* does not fail before the request is made.  The code passes the None on
\* to ChunkRequestPayload, whose field is a ChunkingOptions and rejects it.
C32_Original ==
    (op = "chunk" /\ processing_options = "None" /\ retries >= 1) =>
        /\ attempt >= 1
        /\ error.type # "ValidationError"
        /\ pc = "done" => hist # <<>>

\* ------------------------------------------------ the two constructors
\* C33, as stated: given the same api_key argument, AURELIO_API_KEY value
\* and base_url, the other client's constructor raises when this one raised
\* and builds the same api_key, base_url and headers when this one built a
\* client.  The asynchronous constructor also rejects a key that strip()
\* leaves empty; the synchronous one builds a client with it.
C33_Original ==
    init_args.called =>
        NewClient(Other(client), init_args.api_key, init_args.env,
                  init_args.base_url)
            = [error |-> init_error, self |-> self]

\* ---------------------------------------------------- the attempt counter
\* The operation whose attempt loop hist records, and its budget.
LoopOp == IF OwnLoopHist THEN op ELSE "get_document"
LoopBudget == IF OwnLoopHist THEN retries ELSE DEFAULT_RETRIES

\* Attempt i of the loop was followed by another attempt for a reason the
\* loop retries on: a status >= 500, or a timeout the operation retries.
RetriedOn(e, i) ==
    \/ Is5xx(e)
    \/ /\ IsTimeout(e)
       /\ \E kind \in TimeoutKinds :
              TimeoutPolicy(client, LoopOp, kind, i, LoopBudget) = "retry"

\* C34: in the attempt loop of every retry-wrapped operation (the
\* get_document calls made by wait_for included, each a call of its own)
\* the attempt number is one more than the number of requests the loop has
\* issued, the loop issues at most as many requests as its budget, and each
\* request but the last received a status >= 500 or a timeout the operation
\* retries: a 200, a 429, any other status or any other exception is the
\* last request of the loop.
C34_AttemptsFollowFailures ==
    /\ Len(hist) <= LoopBudget
    /\ \A i \in 1..(Len(hist) - 1) :
           /\ RetriedOn(hist[i], i)
           /\ i < LoopBudget
    /\ (pc = "attempt" /\ attempt >= 2) => attempt = Len(hist) + 1
    /\ (pc = "done" /\ hist # <<>> /\ ~JustEnteredPolling /\ phase = "submit")
           => attempt = Len(hist)
    /\ (pc = "attempt" /\ attempt >= 2) => RetriedOn(Last(hist), Len(hist))

\* A timeout was retried and the next attempt received 404: the call has
\* ended there with one attempt of its budget left unused.
C34_Witness ==
    /\ op = "embedding"
    /\ retries = MaxRetries
    /\ pc = "done"
    /\ attempt = 2
    /\ Len(hist) = 2
    /\ IsTimeout(hist[1])
    /\ IsOtherStatus(hist[2])
    /\ error.type = "ApiError"

\* ------------------------------------------------ the code after the loop
\* The generic error placed after the loop, or the failure of the
\* "extract_response is None" check that stands there.
AfterLoopError ==
    \/ error = ApiError(<<"Failed to get response">>, None, TRUE)
    \/ error.type = "UnboundLocalError"

\* C35: with a budget of at least one attempt the loop of a retry-wrapped
\* operation never runs out: an attempt beyond the budget is never started,
\* since the last attempt returns or raises, and the code placed after the
\* loop is reached only by a call with retries <= 0.
C35_LoopEndsInside ==
    /\ (pc = "attempt" /\ curRetries >= 1) => attempt <= curRetries
    /\ (pc = "attempt" /\ curRetries >= 1) => ~ENABLED LoopExhausted
    /\ LoopEnded => retries <= 0
    /\ AfterLoopError => (op \in RetryOps /\ phase = "submit" /\ retries <= 0)

\* The last attempt of a budget of two timed out: the call has raised
\* ApiTimeoutError inside the loop.
C35_Witness ==
    /\ op \in RetryOps
    /\ phase = "submit"
    /\ retries = MaxRetries
    /\ pc = "done"
    /\ Len(hist) = retries
    /\ attempt = retries
    /\ IsTimeout(Last(hist))
    /\ error.type = "ApiTimeoutError"

\* ------------------------------------------------ a status fetch that fails
\* A get_document call of the wait_for entered by extract_file /
\* extract_url has ended on a request that did not bring a document.
FetchFailed ==
    /\ op \in ExtractOps
    /\ phase = "poll"
    /\ pc = "done"
    /\ extract_response # NoResponse
    /\ ~JustEnteredPolling
    /\ hist # <<>>
    /\ ~IsSuccess(Last(hist))

\* C37: when the submission of extract_file / extract_url succeeded and a
\* status fetch of wait_for then failed (429, status >= 500 on the last of
\* its three attempts, another status, a timeout or another exception), the
\* extract call has raised the error of that fetch and has returned
\* nothing: neither the submission response nor a fetched response.
C37_FetchErrorPropagates ==
    FetchFailed =>
        /\ error # NoError
        /\ result = NoResponse
        /\ ~timeout_reached
        /\ IsRateLimit(Last(hist)) => error.type = "ApiRateLimitError"
        /\ Is5xx(Last(hist)) =>
               /\ Len(hist) = DEFAULT_RETRIES
               /\ error.type = "ApiError"
        /\ IsOtherStatus(Last(hist)) => error.type = "ApiError"
        /\ IsTimeout(Last(hist)) => error.type \in {"ApiTimeoutError", "ApiError"}

\* A fetch found the document pending and the next one received 429: the
\* call has raised ApiRateLimitError.
C37_Witness ==
    /\ FetchFailed
    /\ extract_response.status = "pending"
    /\ document_response.status = "pending"
    /\ fetches = 2
    /\ IsRateLimit(Last(hist))
    /\ error.type = "ApiRateLimitError"
    /\ result = NoResponse

\* ------------------------------------------- the budget of a status fetch
\* hist records a get_document call made by wait_for.
FetchHist == phase = "poll" /\ hist # <<>> /\ ~JustEnteredPolling

\* C38: the retries argument of extract_file / extract_url governs the
\* submission only.  Every get_document call of the polling starts at
\* attempt 1, whatever attempt the submission ended on; it retries a status
\* >= 500 up to the default budget of 3 attempts and issues its requests
\* with the default timeout of 30 seconds, whatever retries (and whatever
\* session timeout) the extract call was given.
C38_FetchesHaveOwnBudget ==
    /\ [][ (op' \in ExtractOps /\ phase' = "poll" /\ pc' = "attempt"
              /\ (phase = "submit" \/ pc = "sleep"))
           => attempt' = 1 ]_vars
    /\ []( (op \in ExtractOps /\ phase = "poll" /\ pc = "attempt")
             => attempt \in 1..DEFAULT_RETRIES )
    /\ []( (op \in ExtractOps /\ FetchHist) =>
             /\ req_timeout = RequestTimeout(client, DEFAULT_TIMEOUT)
             /\ (Is5xx(Last(hist)) /\ Len(hist) < DEFAULT_RETRIES)
                    => (pc = "attempt" /\ attempt = Len(hist) + 1)
             /\ (Is5xx(Last(hist)) /\ pc = "done")
                    => Len(hist) = DEFAULT_RETRIES )

\* An extract call given retries = 1 has made a status fetch of three
\* attempts, each answered with a status >= 500.
C38_Witness ==
    /\ op \in ExtractOps
    /\ retries = 1
    /\ timeout # DEFAULT_TIMEOUT
    /\ FetchHist
    /\ pc = "done"
    /\ Len(hist) = DEFAULT_RETRIES
    /\ AllServerErrors(hist)
    /\ req_timeout = RequestTimeout(client, DEFAULT_TIMEOUT)

\* ------------------------------------------------- polling with a deadline
\* extract_file, extract_url and wait_for called with wait >= 0 and
\* polling_interval > 0.
CallsDeadline ==
    \E c \in Clients, o \in ExtractOps \cup {"wait_for"} :
        \E r \in (IF o = "wait_for" THEN {DEFAULT_RETRIES} ELSE 1..MaxRetries),
           w \in 0..MaxWait,
           pi \in 1..MaxInterval,
           src \in (IF o = "extract_file" THEN {"path", "file"} ELSE {"n/a"}) :
            Call(c, o, r, w, pi,
                 IF o = "wait_for" THEN DEFAULT_TIMEOUT ELSE SessionTimeout(w),
                 "n/a", src)

\* The calls of CallsDeadline; a request may meet a status >= 500 or a
\* timeout, and each sleep lasts polling_interval seconds or longer.
NextDeadline ==
    \/ pc = "idle" /\ CallsDeadline
    \/ pc = "attempt" /\ \E st \in DocStatuses, dt \in ReqTimes : RespOk(200, st, dt)
    \/ pc = "attempt" /\ \E status \in Statuses, body \in Bodies, dt \in ReqTimes :
                            RespServerError(status, body, dt)
    \/ pc = "attempt" /\ \E kind \in TimeoutKinds, dt \in ReqTimes : Timeout(kind, dt)
    \/ pc = "sleep" /\ \E d \in Oversleep : Sleep(d)

\* Every request and every sleep ends.
DeadlineSpec ==
    /\ Init
    /\ [][NextDeadline]_vars
    /\ WF_vars(NextDeadline)

\* wait_for runs with a deadline and a positive polling interval.
BoundedPolling == phase = "poll" /\ wait >= 0 /\ polling_interval > 0

\* C36: in wait_for with wait = W >= 0 and polling_interval = I > 0, the
\* clock advancing by I or more per sleep: start_time is the clock at the
\* start of wait_for, whatever time the submission took; a get_document
\* call is started only while the clock is not past start_time + W; at most
\* 1 + floor(W / I) get_document calls are made; and the call ends.
C36_DeadlineBoundsPolling ==
    /\ [][ (phase = "submit" /\ phase' = "poll") => start_time' = now' ]_vars
    /\ []( (BoundedPolling /\ pc = "attempt" /\ attempt = 1)
               => now <= start_time + wait )
    /\ []( BoundedPolling => fetches <= 1 + (wait \div polling_interval) )
    /\ (BoundedPolling ~> pc = "done")

\* The submission took a second and wait_for has made the two fetches its
\* deadline of one second allows, the second of them at the deadline, two
\* seconds after the call began.
C36_Witness ==
    /\ op \in ExtractOps
    /\ BoundedPolling
    /\ wait = 1
    /\ polling_interval = 1
    /\ start_time = 1
    /\ fetches = 1 + (wait \div polling_interval)
    /\ pc = "attempt"
    /\ attempt = 1
    /\ now = start_time + wait

\* ------------------------------------------- one file object, two uploads
\* C39: the asynchronous extract_file given an in-memory file object
\* leaves the object, after each attempt, at the position it had before the
\* attempt; no other task runs between its tell and its seek back, so the
\* object is at the caller's position whenever a task starts to read it;
\* and two concurrent extract_file calls given the same object have each
\* uploaded its complete content on every attempt.
C39_ReadRestoresPosition ==
    /\ [][ (client = "async" /\ op = "extract_file" /\ source = "file"
              /\ pc # "idle")
           => file_pos' = file_pos ]_vars
    /\ []( (client = "async" /\ op = "extract_file" /\ source = "file") =>
             /\ \A i \in DOMAIN uploaded : uploaded[i] = FileContent
             /\ \A i \in DOMAIN other.uploaded :
                    other.uploaded[i] = FileContent )

\* The object was handed over at position 1.  The first call has uploaded
\* twice (a 500, then its retry); the second task started while the first
\* request was awaited and has uploaded twice as well; the object is still
\* at position 1.
C39_Witness ==
    /\ client = "async"
    /\ op = "extract_file"
    /\ source = "file"
    /\ file_pos = 1
    /\ uploaded = <<FileContent, FileContent>>
    /\ other.began[1] = "attempt"
    /\ other.uploaded = <<FileContent, FileContent>>
    /\ other.hist = <<500, 200>>

\* ------------------------------------------------ the model of an extraction
ModelArgs == {"None", "aurelio-base", "docling-base", "gemini-2-flash-lite"}
QualityArgs == {"None", "low", "high"}

\* File names and URLs the calls are given.
ClipMp4 == <<"a", ".", "m", "p", "4">>
ClipUpper == <<"d", "/", "A", ".", "M", "p", "4">>
PaperPdf == <<"a", ".", "p", "d", "f">>
DotMp4 == <<"d", "/", ".", "m", "p", "4">>
VideoDir == <<"V", "i", "d", "e", "o", "/", "a">>
Mp4Dir == <<"a", ".", "m", "p", "4", "/", "b">>
Names == {ClipMp4, ClipUpper, PaperPdf, DotMp4, VideoDir, Mp4Dir}

\* The caller chooses model, quality and the file name or URL of the call.
Given(model, quality, name) ==
    /\ pc = "idle"
    /\ extraction = NoExtraction
    /\ extraction' = [model |-> model, quality |-> quality, name |-> name,
                      sent |-> "none"]
    /\ UNCHANGED <<client, op, retries, wait, polling_interval, timeout,
                   processing_options, source, pc, phase, attempt, hist,
                   response, fetches, now, start_time, timeout_reached,
                   extract_response, document_response, result, error,
                   req_timeout, sent_wait, open_sessions, files_open,
                   files_opened, req_headers, uploaded, file_pos,
                   object, chunking, other>>

\* extract_file and extract_url with one attempt and no polling.
CallsModel ==
    \E c \in Clients, o \in ExtractOps :
        \E src \in (IF o = "extract_file" THEN {"path", "file", "handle"}
                    ELSE {"n/a"}) :
            Call(c, o, 1, 0, 0, SessionTimeout(0), "n/a", src)

NextModel ==
    \/ \E model \in ModelArgs, quality \in QualityArgs, name \in Names :
           Given(model, quality, name)
    \/ pc = "idle" /\ CallsModel
    \/ pc = "attempt" /\ RespOk(200, "completed", 0)
    \/ pc = "attempt" /\ RespServerError(500, "Internal Server Error", 0)

ModelSpec == Init /\ [][NextModel]_vars

\* The source of the call is a video: a file path, or a file object with
\* a name, whose name ends in .mp4 in either case of the letters (a name
\* that is nothing but ".mp4" has no suffix); a URL that ends in .mp4 or
\* holds "video", in either case of the letters.
VideoSource ==
    \/ /\ op = "extract_file"
       /\ source \in {"path", "handle"}
       /\ extraction.name \in {ClipMp4, ClipUpper}
    \/ /\ op = "extract_url"
       /\ extraction.name \in {ClipMp4, ClipUpper, DotMp4, VideoDir}

\* C31: the "model" field of a submission of extract_file / extract_url (both
\* clients).  A model given by the caller is sent unchanged, whatever the
\* quality and the source; without one, aurelio-base is sent for a video
\* source whatever the quality, docling-base for another source with
\* quality high, and aurelio-base otherwise.
C31_ModelSelection ==
    (op \in ExtractOps /\ extraction.sent # "none") =>
        extraction.sent =
            IF extraction.model # "None" THEN extraction.model
            ELSE IF VideoSource THEN "aurelio-base"
            ELSE IF extraction.quality = "high" THEN "docling-base"
            ELSE "aurelio-base"

\* The asynchronous extract_url was given quality high, no model and a URL
\* with "Video" in it, and has sent aurelio-base.
C31_Witness ==
    /\ client = "async"
    /\ op = "extract_url"
    /\ extraction.model = "None"
    /\ extraction.quality = "high"
    /\ extraction.name = VideoDir
    /\ extraction.sent = "aurelio-base"
    /\ pc = "done"

====
